---- MODULE Spec2Model ----
(***************************************************************************)
(* Model of search-mcp (src/main.py): the collection registry built at     *)
(* startup, list_directories, and the fan-out search orchestrator with its *)
(* per-collection sub-queries, merge, sort and truncation.                 *)
(*                                                                         *)
(* Units: a distance is an integer number of 1e-5, a score an integer      *)
(* number of 1e-4 (score 0.95 is 9500), so round(1 - dist, 4) is modelled  *)
(* as a real rounding step from the finer unit to the coarser one.         *)
(***************************************************************************)
EXTENDS Integers, Sequences, FiniteSets, TLC

\* ------------------------------------------------------------- bounds
\* Largest number of documents a collection of the store holds.
MaxDocs == 2
\* Largest n_results a client asks for (n_results ranges over 1..MaxN).
MaxN == 2
\* Longest document text the store holds, in characters.
MaxTextLen == 502

\* ------------------------------------------------------------- constants
\* doc[:500]
SnippetMax == 500

\* ------------------------------------------------------------- values
None == "None"
\* The local `embedding` before line 104 has assigned it.
Unset == <<>>

\* Distances the vector store may report (units of 1e-5): 0.05, 0.30004,
\* 1.0 and 1.5.
Dists == {5000, 30004, 100000, 150000}

\* Paths written in config.yaml, and the directory arguments clients pass.
ConfigPaths == {"/a/", "/ln"}
DirectoryArgs == {None, "/a", "/b", "/a/", "/x"}
Queries == {"q1", "q2"}

\* A document text of length len: a sequence of characters (here numbers).
Text(len) == [i \in 1..len |-> i % 7]
Texts == {Text(len) : len \in 0..MaxTextLen}
ShortText == Text(3)

\* Path.resolve(): "/a/" normalises to "/a", "/ln" is a symlink to "/b".
Resolve(p) ==
  CASE p = "/a/" -> "/a"
    [] p = "/ln" -> "/b"
    [] OTHER -> p

\* _collection_name: "search-" + a digest of the canonical path (the digest
\* is modelled as injective: the canonical path itself).
CollectionName(folder) == "search-" \o Resolve(folder)

\* _load_folders: the configured paths, each expanded and resolved.
LoadFolders(cfg) == {Resolve(p) : p \in cfg}

CollectionNames == {CollectionName(p) : p \in ConfigPaths}

\* The document lists a collection may hold: distances to the query in the
\* store's ranking order (ascending distance).
DistLists ==
  {s \in UNION {[1..k -> Dists] : k \in 0..MaxDocs} :
     \A i \in 1..Len(s) : \A j \in 1..Len(s) : i < j => s[i] <= s[j]}

Min(a, b) == IF a <= b THEN a ELSE b

VARIABLES
  config,       \* the folder paths of config.yaml
  chroma,       \* the persistent store: collection name -> ranked distances
  documents,    \* the persistent store: collection name -> ranked texts
  started,      \* "no" | "ok" | "failed": the lifespan's startup
  _model,       \* the global _model: None until loaded
  _collections, \* the global _collections: canonical path -> handle
  listed,       \* the values list_directories has returned so far
  pc,           \* per request: position in search
  query, n_results, directory,   \* per request: the arguments of search
  embedding,    \* per request: the local `embedding`
  encodes,      \* per request: number of _model.encode calls made
  futures,      \* per request: folder_path -> the submitted sub-query
  yielded,      \* per request: futures as_completed has handed to the loop
  results,      \* per request: the local `results`
  ret           \* per request: the returned list (<<>> until search returns)

vars == <<config, chroma, documents, started, _model, _collections, listed, pc,
          query, n_results, directory, embedding, encodes, futures, yielded,
          results, ret>>

reqvars == <<pc, query, n_results, directory, embedding, encodes, futures,
             yielded, results, ret>>

EmptyMap == [x \in {} |-> None]

\* The requests of the run.
Requests == DOMAIN pc

\* ------------------------------------------------------------- helpers
IsError(e) == "error" \in DOMAIN e
IsResult(e) == "score" \in DOMAIN e

\* round(x, 4) of a value given in units of 1e-5: to the nearest 1e-4, a
\* half going to the even neighbour.
Round4(x) ==
  LET q == x \div 10
      m == x % 10
  IN  IF m < 5 THEN q
      ELSE IF m > 5 THEN q + 1
      ELSE IF q % 2 = 0 THEN q ELSE q + 1

\* "score": round(1 - dist, 4)
Score(dist) == Round4(100000 - dist)

\* collection.query(query_embeddings=[embedding], n_results=n, ...): the n
\* nearest documents of the collection, nearest first.
\* The store's answer over a collection given by its ranked distances and
\* texts: the n nearest documents, nearest first.
Nearest(dists, docs, coll, n) ==
  [i \in 1..Min(n, Len(dists)) |->
     [id |-> <<coll, i>>, distance |-> dists[i], document |-> docs[i]]]

StoreQuery(coll, n) == Nearest(chroma[coll], documents[coll], coll, n)

\* Faulty variant of Snippet: the slice keeps one character too many.
SnippetOneMore(doc) == SubSeq(doc, 1, Min(SnippetMax + 1, Len(doc)))

\* "snippet": doc[:500]
Snippet(doc) == SubSeq(doc, 1, Min(SnippetMax, Len(doc)))

\* _query, lines 118-131: one record per candidate of the store's response.
ResultRecords(folder_path, response) ==
  [i \in 1..Len(response) |->
     [score |-> Score(response[i].distance),
      directory |-> folder_path,
      file |-> response[i].id,
      snippet |-> Snippet(response[i].document)]]

\* _query
QueryResults(folder_path, collection, n) ==
  ResultRecords(folder_path, StoreQuery(collection, n))

QueryError(folder_path) == [error |-> <<"Failed to query", folder_path>>]
NotIndexedError(d) == [error |-> <<"is not indexed", d>>]

\* key=lambda r: r.get("score", 0)
SortKey(e) == IF "score" \in DOMAIN e THEN e.score ELSE 0

\* Faulty variant of InsertDesc: reverse=True forgotten, the sort is ascending.
RECURSIVE InsertAsc(_, _)
InsertAsc(sorted, e) ==
  IF sorted = <<>> THEN <<e>>
  ELSE IF SortKey(Head(sorted)) <= SortKey(e)
       THEN <<Head(sorted)>> \o InsertAsc(Tail(sorted), e)
       ELSE <<e>> \o sorted

\* list.sort(key=..., reverse=True): stable, descending by key.
RECURSIVE InsertDesc(_, _)
InsertDesc(sorted, e) ==
  IF sorted = <<>> THEN <<e>>
  ELSE IF SortKey(Head(sorted)) >= SortKey(e)
       THEN <<Head(sorted)>> \o InsertDesc(Tail(sorted), e)
       ELSE <<e>> \o sorted

\* Faulty variant of SortDesc: the sort is left out.
Unsorted(s) == s

RECURSIVE SortDesc(_)
SortDesc(s) ==
  IF s = <<>> THEN <<>>
  ELSE InsertDesc(SortDesc(SubSeq(s, 1, Len(s) - 1)), s[Len(s)])

\* Faulty variant of Truncate: the slice keeps one entry too many.
TruncateOneMore(s, n) == SubSeq(s, 1, Min(n + 1, Len(s)))

\* results[:n_results], n_results >= 1
Truncate(s, n) == SubSeq(s, 1, Min(n, Len(s)))

\* Faulty variant of Targets: the directory scope is ignored.
TargetsAll(d) == _collections

\* targets: the one requested collection, or all of them.
Targets(d) ==
  IF d # None THEN [f \in {d} |-> _collections[f]] ELSE _collections

\* ------------------------------------------------------------- initial state
\* The process before startup, with its configuration and store drawn from
\* the given sets; every document of the store has the same text.
InitWith(reqs, configs, stores, texts) ==
  /\ config \in configs
  /\ chroma \in stores
  /\ \E t \in texts :
       documents = [c \in DOMAIN chroma |->
                      [i \in 1..Len(chroma[c]) |-> t]]
  /\ started = "no"
  /\ _model = None
  /\ _collections = EmptyMap
  /\ listed = {}
  /\ pc = [r \in reqs |-> "idle"]
  /\ query = [r \in reqs |-> None]
  /\ n_results = [r \in reqs |-> 0]
  /\ directory = [r \in reqs |-> None]
  /\ embedding = [r \in reqs |-> Unset]
  /\ encodes = [r \in reqs |-> 0]
  /\ futures = [r \in reqs |-> EmptyMap]
  /\ yielded = [r \in reqs |-> {}]
  /\ results = [r \in reqs |-> <<>>]
  /\ ret = [r \in reqs |-> <<>>]

\* Every store over the configurable collections.
Stores == UNION {[S -> DistLists] : S \in SUBSET CollectionNames}

\* One request, any configuration, any store, short documents.
Init == InitWith({"r1"}, SUBSET ConfigPaths, Stores, {ShortText})

\* One request, one folder holding one document of any length.
InitSnippet ==
  InitWith({"r1"}, {{"/a/"}}, {[c \in {"search-/a"} |-> <<5000>>]}, Texts)

\* ------------------------------------------------------------- startup
\* Faulty variant of Startup: the registry is filled folder by folder, so a
\* failure leaves the folders bound before it.
StartupPartial ==
  /\ started = "no"
  /\ _model' = "all-MiniLM-L6-v2"
  /\ LET folders == LoadFolders(config)
         found == {f \in folders : CollectionName(f) \in DOMAIN chroma}
     IN  /\ _collections' = [f \in found |-> CollectionName(f)]
         /\ started' = IF found = folders THEN "ok" ELSE "failed"
  /\ UNCHANGED <<config, chroma, documents, listed, reqvars>>

\* lifespan._load: the model is loaded, then every configured folder's
\* collection is fetched; the registry is assigned only if all were found.
Startup ==
  /\ started = "no"
  /\ _model' = "all-MiniLM-L6-v2"
  /\ LET folders == LoadFolders(config)
     IN  IF \A f \in folders : CollectionName(f) \in DOMAIN chroma
         THEN /\ _collections' = [f \in folders |-> CollectionName(f)]
              /\ started' = "ok"
         ELSE /\ _collections' = _collections
              /\ started' = "failed"
  /\ UNCHANGED <<config, chroma, documents, listed, reqvars>>

\* ------------------------------------------------------------- tools
\* Faulty variant of ListDirectoriesResult: the paths as configured, not the keys.
ListConfigured == config

\* return list(_collections.keys())
ListDirectoriesResult == DOMAIN _collections

\* list_directories
ListDirectories ==
  /\ started = "ok"
  /\ listed' = listed \cup {ListDirectoriesResult}
  /\ UNCHANGED <<config, chroma, documents, started, _model, _collections, reqvars>>

\* Faulty variant of SearchCall: the query is embedded before the directory check.
SearchCallEmbedFirst(r, q, n, d) ==
  /\ started = "ok"
  /\ pc[r] = "idle"
  /\ query' = [query EXCEPT ![r] = q]
  /\ n_results' = [n_results EXCEPT ![r] = n]
  /\ directory' = [directory EXCEPT ![r] = d]
  /\ encodes' = [encodes EXCEPT ![r] = @ + 1]
  /\ embedding' = [embedding EXCEPT ![r] = <<"vec", q>>]
  /\ IF d # None /\ d \notin DOMAIN _collections
     THEN /\ ret' = [ret EXCEPT ![r] = <<NotIndexedError(d)>>]
          /\ pc' = [pc EXCEPT ![r] = "done"]
     ELSE /\ ret' = ret
          /\ pc' = [pc EXCEPT ![r] = "dispatch"]
  /\ UNCHANGED <<config, chroma, documents, started, _model, _collections, listed,
                 futures, yielded, results>>

\* search, lines 101-102: the directory check.
SearchCall(r, q, n, d) ==
  /\ started = "ok"
  /\ pc[r] = "idle"
  /\ query' = [query EXCEPT ![r] = q]
  /\ n_results' = [n_results EXCEPT ![r] = n]
  /\ directory' = [directory EXCEPT ![r] = d]
  /\ IF d # None /\ d \notin DOMAIN _collections
     THEN /\ ret' = [ret EXCEPT ![r] = <<NotIndexedError(d)>>]
          /\ pc' = [pc EXCEPT ![r] = "done"]
     ELSE /\ ret' = ret
          /\ pc' = [pc EXCEPT ![r] = "embed"]
  /\ UNCHANGED <<config, chroma, documents, started, _model, _collections, listed,
                 embedding, encodes, futures, yielded, results>>

\* search, line 104: _model.encode(query); an exception of the model
\* propagates out of search.
Embed(r) ==
  /\ pc[r] = "embed"
  /\ encodes' = [encodes EXCEPT ![r] = @ + 1]
  /\ \/ /\ embedding' = [embedding EXCEPT ![r] = <<"vec", query[r]>>]
        /\ pc' = [pc EXCEPT ![r] = "dispatch"]
     \/ /\ embedding' = embedding
        /\ pc' = [pc EXCEPT ![r] = "raised"]
  /\ UNCHANGED <<config, chroma, documents, started, _model, _collections, listed,
                 query, n_results, directory, futures, yielded, results, ret>>

\* Faulty variant of Dispatch: every sub-query embeds the query again.
DispatchReEmbed(r) ==
  /\ pc[r] = "dispatch"
  /\ LET targets == Targets(directory[r])
     IN  /\ futures' = [futures EXCEPT ![r] =
              [f \in DOMAIN targets |->
                 [collection |-> targets[f],
                  embedding |-> <<"vec", query[r]>>,
                  n_results |-> n_results[r], state |-> "running",
                  value |-> <<>>]]]
         /\ encodes' = [encodes EXCEPT ![r] = @ + Cardinality(DOMAIN targets)]
  /\ pc' = [pc EXCEPT ![r] = "collect"]
  /\ UNCHANGED <<config, chroma, documents, started, _model, _collections,
                 listed, query, n_results, directory, embedding, yielded,
                 results, ret>>

\* Faulty variant of Dispatch: the n_results budget is split among the targets.
DispatchSplit(r) ==
  /\ pc[r] = "dispatch"
  /\ LET targets == Targets(directory[r])
     IN  futures' = [futures EXCEPT ![r] =
           [f \in DOMAIN targets |->
              [collection |-> targets[f], embedding |-> embedding[r],
               n_results |-> n_results[r] \div Cardinality(DOMAIN targets),
               state |-> "running", value |-> <<>>]]]
  /\ pc' = [pc EXCEPT ![r] = "collect"]
  /\ UNCHANGED <<config, chroma, documents, started, _model, _collections,
                 listed, query, n_results, directory, embedding, encodes,
                 yielded, results, ret>>

\* search, lines 106-138: resolve the targets and submit one _query each.
Dispatch(r) ==
  /\ pc[r] = "dispatch"
  /\ LET targets == Targets(directory[r])
     IN  futures' = [futures EXCEPT ![r] =
           [f \in DOMAIN targets |->
              [collection |-> targets[f], embedding |-> embedding[r],
               n_results |-> n_results[r], state |-> "running",
               value |-> <<>>]]]
  /\ pc' = [pc EXCEPT ![r] = "collect"]
  /\ UNCHANGED <<config, chroma, documents, started, _model, _collections, listed,
                 query, n_results, directory, embedding, encodes, yielded,
                 results, ret>>

\* A worker thread finishes _query: the store answers, or raises.
QueryFinish(r, f) ==
  /\ pc[r] = "collect"
  /\ f \in DOMAIN futures[r]
  /\ futures[r][f].state = "running"
  /\ \/ futures' = [futures EXCEPT ![r][f].state = "returned",
                      ![r][f].value = QueryResults(f, futures[r][f].collection,
                                                   futures[r][f].n_results)]
     \/ futures' = [futures EXCEPT ![r][f].state = "raised"]
  /\ UNCHANGED <<config, chroma, documents, started, _model, _collections, listed,
                 pc, query, n_results, directory, embedding, encodes, yielded,
                 results, ret>>

\* Faulty variant of Collect: the loop waits for results only, a failed
\* sub-query is never handed over.
CollectReturnedOnly(r, f) ==
  /\ pc[r] = "collect"
  /\ f \in DOMAIN futures[r] \ yielded[r]
  /\ futures[r][f].state = "returned"
  /\ yielded' = [yielded EXCEPT ![r] = @ \cup {f}]
  /\ results' = [results EXCEPT ![r] = @ \o futures[r][f].value]
  /\ UNCHANGED <<config, chroma, documents, started, _model, _collections,
                 listed, pc, query, n_results, directory, embedding, encodes,
                 futures, ret>>

\* Faulty variant of Collect: `results` is one list shared by all requests.
CollectShared(r, f) ==
  /\ pc[r] = "collect"
  /\ f \in DOMAIN futures[r] \ yielded[r]
  /\ futures[r][f].state # "running"
  /\ yielded' = [yielded EXCEPT ![r] = @ \cup {f}]
  /\ results' = [q \in DOMAIN results |->
       IF pc[q] # "collect" THEN results[q]
       ELSE IF futures[r][f].state = "returned"
            THEN results[q] \o futures[r][f].value
            ELSE Append(results[q], QueryError(f))]
  /\ UNCHANGED <<config, chroma, documents, started, _model, _collections,
                 listed, pc, query, n_results, directory, embedding, encodes,
                 futures, ret>>

\* Faulty variant of Collect: a folder whose query failed is dropped from the
\* registry.
CollectEvict(r, f) ==
  /\ pc[r] = "collect"
  /\ f \in DOMAIN futures[r] \ yielded[r]
  /\ futures[r][f].state # "running"
  /\ yielded' = [yielded EXCEPT ![r] = @ \cup {f}]
  /\ results' = [results EXCEPT ![r] =
       IF futures[r][f].state = "returned"
       THEN @ \o futures[r][f].value
       ELSE Append(@, QueryError(f))]
  /\ _collections' =
       IF futures[r][f].state = "returned" THEN _collections
       ELSE [g \in DOMAIN _collections \ {f} |-> _collections[g]]
  /\ UNCHANGED <<config, chroma, documents, started, _model, listed,
                 pc, query, n_results, directory, embedding, encodes, futures,
                 ret>>

\* search, lines 139-144: one turn of the as_completed loop.
Collect(r, f) ==
  /\ pc[r] = "collect"
  /\ f \in DOMAIN futures[r] \ yielded[r]
  /\ futures[r][f].state # "running"
  /\ yielded' = [yielded EXCEPT ![r] = @ \cup {f}]
  /\ results' = [results EXCEPT ![r] =
       IF futures[r][f].state = "returned"
       THEN @ \o futures[r][f].value
       ELSE Append(@, QueryError(f))]
  /\ UNCHANGED <<config, chroma, documents, started, _model, _collections, listed,
                 pc, query, n_results, directory, embedding, encodes, futures,
                 ret>>

\* Faulty variant of Merge: the loop is left at the first failed sub-query.
MergeEarly(r) ==
  /\ pc[r] = "collect"
  /\ \/ yielded[r] = DOMAIN futures[r]
     \/ \E f \in yielded[r] : futures[r][f].state = "raised"
  /\ LET sorted == SortDesc(results[r])
     IN  /\ results' = [results EXCEPT ![r] = sorted]
         /\ ret' = [ret EXCEPT ![r] = Truncate(sorted, n_results[r])]
  /\ pc' = [pc EXCEPT ![r] = "done"]
  /\ UNCHANGED <<config, chroma, documents, started, _model, _collections,
                 listed, query, n_results, directory, embedding, encodes,
                 futures, yielded>>

\* search, lines 146-147: after the loop, sort and truncate.
Merge(r) ==
  /\ pc[r] = "collect"
  /\ yielded[r] = DOMAIN futures[r]
  /\ LET sorted == SortDesc(results[r])
     IN  /\ results' = [results EXCEPT ![r] = sorted]
         /\ ret' = [ret EXCEPT ![r] = Truncate(sorted, n_results[r])]
  /\ pc' = [pc EXCEPT ![r] = "done"]
  /\ UNCHANGED <<config, chroma, documents, started, _model, _collections, listed,
                 query, n_results, directory, embedding, encodes, futures,
                 yielded>>

Next ==
  \/ Startup
  \/ ListDirectories
  \/ \E r \in Requests : \E q \in Queries : \E n \in 1..MaxN :
       \E d \in DirectoryArgs : SearchCall(r, q, n, d)
  \/ \E r \in Requests : Embed(r)
  \/ \E r \in Requests : Dispatch(r)
  \/ \E r \in Requests : \E f \in DOMAIN futures[r] : QueryFinish(r, f)
  \/ \E r \in Requests : \E f \in DOMAIN futures[r] : Collect(r, f)
  \/ \E r \in Requests : Merge(r)

Spec == Init /\ [][Next]_vars

\* Stores of two folders for the runs with concurrent requests.
ConcStores ==
  {[c \in CollectionNames |->
      IF c = "search-/a" THEN <<5000, 100000>> ELSE <<30004>>],
   [c \in CollectionNames |->
      IF c = "search-/a" THEN <<30004>> ELSE <<30004, 150000>>]}

\* Two requests in flight at once, both folders configured.
InitConc == InitWith({"r1", "r2"}, {ConfigPaths}, ConcStores, {ShortText})

\* Two concurrent tool calls, their steps interleaved in any way.
SpecConc == InitConc /\ [][Next]_vars

\* The steps of a request from the submission of its sub-queries on: the
\* worker threads and the thread running search.
FanOutStep(r) ==
  \/ Dispatch(r)
  \/ \E f \in DOMAIN futures[r] : QueryFinish(r, f)
  \/ \E f \in DOMAIN futures[r] : Collect(r, f)
  \/ Merge(r)

\* One request, any configuration, the stores of two folders.
InitFair == InitWith({"r1"}, SUBSET ConfigPaths, ConcStores, {ShortText})

\* The thread scheduler lets every thread that can run take its step: a
\* submitted sub-query completes, and search goes on once it can.
SpecFair == InitFair /\ [][Next]_vars /\ WF_vars(FanOutStep("r1"))

\* The same program over documents of every length.
SpecSnippet == InitSnippet /\ [][Next]_vars

\* ------------------------------------------------------------- properties
Range(s) == {s[i] : i \in 1..Len(s)}

\* The request went through the fan-out and search returned its merged list.
Joined(r) == pc[r] = "done" /\ embedding[r] # Unset

\* The request has submitted its sub-queries.
Dispatched(r) == pc[r] \in {"collect", "done"} /\ embedding[r] # Unset

\* The targets whose query raised.
Raised(r) == {f \in DOMAIN futures[r] : futures[r][f].state = "raised"}

\* What one target contributes: its candidate list, or one error placeholder.
Contribution(r, f) ==
  IF futures[r][f].state = "returned" THEN futures[r][f].value
  ELSE <<QueryError(f)>>

\* All candidates the targets of the request returned.
Candidates(r) == UNION {Range(futures[r][f].value) : f \in DOMAIN futures[r]}

RECURSIVE SumLen(_, _)
SumLen(r, S) ==
  IF S = {} THEN 0
  ELSE LET f == CHOOSE x \in S : TRUE
       IN  Len(Contribution(r, f)) + SumLen(r, S \ {f})

\* Number of contributions collected from all targets.
Contributions(r) == SumLen(r, DOMAIN futures[r])

ErrorCount(s) == Cardinality({i \in 1..Len(s) : IsError(s[i])})

\* C1 (as claimed): isolation. When search has returned from a fan-out in
\* which exactly one target's query raised, the returned list holds exactly
\* one ErrorResult and, for every other target that returned candidates, at
\* least one of its results.
C1_Isolation ==
  \A r \in Requests :
    (Joined(r) /\ Cardinality(Raised(r)) = 1) =>
      /\ ErrorCount(ret[r]) = 1
      /\ \A f \in DOMAIN futures[r] \ Raised(r) :
           futures[r][f].value # <<>> =>
             \E i \in 1..Len(ret[r]) :
               IsResult(ret[r][i]) /\ ret[r][i].directory = f

\* s lists, in descending score order and without repetition, n of the
\* entries of C (all of them if C has fewer), and no entry of C left out has
\* a larger score than one that is listed.
IsTopN(s, C, n) ==
  /\ Len(s) = Min(n, Cardinality(C))
  /\ Range(s) \subseteq C
  /\ \A i \in 1..Len(s) : \A j \in 1..Len(s) :
       /\ i < j => s[i].score >= s[j].score
       /\ i # j => s[i] # s[j]
  /\ \A c \in C \ Range(s) : \A i \in 1..Len(s) : s[i].score >= c.score

\* C2: merge correctness. When no target's query raised, the returned list
\* is the n_results best-scored candidates of the union of all targets'
\* candidates, in descending score order (ties in any order).
C2_MergeCorrectness ==
  \A r \in Requests :
    (Joined(r) /\ Raised(r) = {}) =>
      IsTopN(ret[r], Candidates(r), n_results[r])

\* Two collections both contribute to the returned list and a candidate is cut.
C2_Witness ==
  \E r \in Requests :
    /\ Joined(r) /\ Raised(r) = {}
    /\ Cardinality(DOMAIN futures[r]) = 2
    /\ Cardinality(Candidates(r)) > n_results[r]
    /\ Cardinality({ret[r][i].directory : i \in 1..Len(ret[r])}) = 2
    /\ ret[r][1].score > ret[r][Len(ret[r])].score

\* C3 (as claimed): in every returned list no ErrorResult stands before a
\* SearchResult.
C3_ErrorsLast ==
  \A r \in Requests :
    pc[r] = "done" =>
      \A i \in 1..Len(ret[r]) : \A j \in 1..Len(ret[r]) :
        (i < j /\ IsError(ret[r][i])) => ~IsResult(ret[r][j])

\* C4: truncation. A returned list has at most n_results entries, and
\* exactly n_results when the targets contributed at least that many
\* entries (candidates plus error placeholders).
C4_Truncation ==
  \A r \in Requests :
    pc[r] = "done" =>
      /\ Len(ret[r]) <= n_results[r]
      /\ Contributions(r) >= n_results[r] => Len(ret[r]) = n_results[r]

\* More was collected than asked for, and the list was cut to n_results.
C4_Witness ==
  \E r \in Requests :
    /\ Joined(r)
    /\ Contributions(r) > n_results[r]
    /\ Len(ret[r]) = n_results[r]

\* C5: unknown directory. A call with a directory that is no key of the
\* registry has returned exactly one ErrorResult, has not invoked the
\* embedding model and has dispatched no sub-query.
C5_UnknownDirectory ==
  \A r \in Requests :
    (pc[r] # "idle" /\ directory[r] # None
       /\ directory[r] \notin DOMAIN _collections) =>
      /\ pc[r] = "done"
      /\ Len(ret[r]) = 1 /\ IsError(ret[r][1])
      /\ encodes[r] = 0
      /\ embedding[r] = Unset
      /\ DOMAIN futures[r] = {}

\* A non-empty registry, and a call with a directory that is not in it.
C5_Witness ==
  \E r \in Requests :
    /\ pc[r] = "done"
    /\ directory[r] # None
    /\ directory[r] \notin DOMAIN _collections
    /\ DOMAIN _collections # {}

\* C6: directory scoping. With directory = D (indexed), exactly one
\* sub-query is dispatched, to D's collection, and every returned
\* SearchResult has directory D; with no directory, one sub-query goes to
\* every registry entry, and every returned SearchResult names the folder
\* whose collection produced it.
C6_DirectoryScoping ==
  \A r \in Requests :
    Dispatched(r) =>
      /\ DOMAIN futures[r] =
           (IF directory[r] # None THEN {directory[r]}
            ELSE DOMAIN _collections)
      /\ \A f \in DOMAIN futures[r] :
           futures[r][f].collection = _collections[f]
      /\ pc[r] = "done" =>
           \A i \in 1..Len(ret[r]) :
             IsResult(ret[r][i]) =>
               /\ directory[r] # None => ret[r][i].directory = directory[r]
               /\ ret[r][i].directory \in DOMAIN _collections
               /\ ret[r][i].file[1] = _collections[ret[r][i].directory]

\* A scoped search over a registry of two folders returned a result.
C6_Witness ==
  \E r \in Requests :
    /\ Joined(r)
    /\ directory[r] # None
    /\ Cardinality(DOMAIN _collections) = 2
    /\ \E i \in 1..Len(ret[r]) : IsResult(ret[r][i])

\* All orders in which the sub-queries of a request can complete.
Orders(r) ==
  LET S == DOMAIN futures[r]
  IN  {o \in [1..Cardinality(S) -> S] :
         \A i \in 1..Cardinality(S) : \A j \in 1..Cardinality(S) :
           i # j => o[i] # o[j]}

RECURSIVE Collected(_, _)
Collected(r, o) ==
  IF o = <<>> THEN <<>>
  ELSE Collected(r, SubSeq(o, 1, Len(o) - 1)) \o Contribution(r, o[Len(o)])

\* What search returns when the sub-queries complete in order o.
Output(r, o) == Truncate(SortDesc(Collected(r, o)), n_results[r])

\* s and t hold the same entries, and differ at a position only by two
\* SearchResults of exactly equal score.
SameUpToTieOrder(s, t) ==
  /\ Len(s) = Len(t)
  /\ Range(s) = Range(t)
  /\ \A i \in 1..Len(s) :
       \/ s[i] = t[i]
       \/ IsResult(s[i]) /\ IsResult(t[i]) /\ s[i].score = t[i].score

\* C7 (as claimed): determinism. With the outcomes of the sub-queries
\* fixed, the list returned under the actual completion order and the list
\* returned under any other completion order are the same sequence up to
\* the order of SearchResults of exactly equal score.
C7_SameUpToTieOrder ==
  \A r \in Requests :
    Joined(r) => \A o \in Orders(r) : SameUpToTieOrder(ret[r], Output(r, o))

\* The entries of s with a sort key above s's last one.
AboveCut(s) == {e \in Range(s) : SortKey(e) > SortKey(s[Len(s)])}

\* s and t have the same sort key at every position, and the same entries
\* above the lowest key they list.
SameKeys(s, t) ==
  /\ Len(s) = Len(t)
  /\ \A i \in 1..Len(s) : SortKey(s[i]) = SortKey(t[i])
  /\ s # <<>> => AboveCut(s) = AboveCut(t)

\* C7 (amended): with the outcomes of the sub-queries fixed, the lists
\* returned under any two completion orders have the same length and the
\* same sort key (the score, 0 for an ErrorResult) at every position, and
\* hold the same entries above the lowest key returned; when nothing was
\* cut they hold the same entries altogether.
C7_Determinism ==
  \A r \in Requests :
    Joined(r) =>
      \A o \in Orders(r) :
        /\ SameKeys(ret[r], Output(r, o))
        /\ Contributions(r) <= n_results[r] =>
             Range(ret[r]) = Range(Output(r, o))

\* Two targets completed in an order under which the collected list was
\* not already sorted, and another completion order gives the same list.
C7_Witness ==
  \E r \in Requests :
    /\ Joined(r)
    /\ Cardinality(DOMAIN futures[r]) = 2
    /\ Len(ret[r]) = 2
    /\ SortKey(ret[r][1]) > SortKey(ret[r][2])
    /\ \E o \in Orders(r) :
         /\ Collected(r, o) # ret[r]
         /\ Output(r, o) = ret[r]

\* The embedding of the request's query failed.
EmbedFailed(r) == encodes[r] > 0 /\ embedding[r] = Unset /\ pc[r] # "embed"

\* C8 (as claimed): when embedding the query fails, search does not raise
\* but returns a list whose sole item is an ErrorResult, and dispatches no
\* sub-query.
C8_EmbeddingFailureAsData ==
  \A r \in Requests :
    EmbedFailed(r) =>
      /\ pc[r] = "done"
      /\ Len(ret[r]) = 1 /\ IsError(ret[r][1])
      /\ DOMAIN futures[r] = {}

\* C9 (as claimed): every SearchResult of a returned list has a score
\* within [0, 1] (0..10000 in units of 1e-4).
C9_ScoreRange ==
  \A r \in Requests :
    pc[r] = "done" =>
      \A i \in 1..Len(ret[r]) :
        IsResult(ret[r][i]) => (0 <= ret[r][i].score /\ ret[r][i].score <= 10000)

\* search answered the request with the 'not indexed' ErrorResult.
AnsweredNotIndexed(r) ==
  /\ pc[r] = "done"
  /\ \E i \in 1..Len(ret[r]) : ret[r][i] = NotIndexedError(directory[r])

\* C10: list_directories returns exactly the registry's keys, and search
\* called with a path it returned is never answered 'not indexed'.
C10_ListSearchRoundTrip ==
  \A paths \in listed :
    /\ paths = DOMAIN _collections
    /\ \A r \in Requests :
         (pc[r] # "idle" /\ directory[r] \in paths) =>
           /\ ~AnsweredNotIndexed(r)
           /\ pc[r] = "done" => embedding[r] # Unset

\* A listed path was searched and the search returned a SearchResult.
C10_Witness ==
  \E r \in Requests :
    /\ \E paths \in listed : directory[r] \in paths
    /\ Joined(r)
    /\ \E i \in 1..Len(ret[r]) :
         IsResult(ret[r][i]) /\ ret[r][i].directory = directory[r]

\* The store's text of the document a SearchResult was made from.
DocumentOf(e) == documents[e.file[1]][e.file[2]]

\* C11: snippet bound. Every SearchResult of a returned list has a snippet
\* that is a prefix of its document's text, at most 500 characters long,
\* and the whole text when that has at most 500 characters.
C11_SnippetBound ==
  \A r \in Requests :
    pc[r] = "done" =>
      \A i \in 1..Len(ret[r]) :
        IsResult(ret[r][i]) =>
          LET snip == ret[r][i].snippet
              doc == DocumentOf(ret[r][i])
          IN  /\ Len(snip) <= 500
              /\ Len(snip) <= Len(doc)
              /\ \A k \in 1..Len(snip) : snip[k] = doc[k]
              /\ Len(doc) <= 500 => snip = doc

\* A result whose document is longer than 500 characters was returned.
C11_Witness ==
  \E r \in Requests :
    /\ pc[r] = "done"
    /\ \E i \in 1..Len(ret[r]) :
         /\ IsResult(ret[r][i])
         /\ Len(DocumentOf(ret[r][i])) > 500
         /\ Len(ret[r][i].snippet) = 500

\* The positions of list s that hold entry e.
Positions(s, e) == {i \in 1..Len(s) : s[i] = e}

\* List s holds target f's contribution and nothing else of f: all of its
\* candidates once each and no error placeholder for f, or exactly one
\* error placeholder naming f and no candidate of f.
HoldsContribution(s, r, f) ==
  IF futures[r][f].state = "returned"
  THEN /\ \A e \in Range(futures[r][f].value) :
            Cardinality(Positions(s, e)) = 1
       /\ Cardinality({i \in 1..Len(s) :
            IsResult(s[i]) /\ s[i].directory = f}) = Len(futures[r][f].value)
       /\ Positions(s, QueryError(f)) = {}
  ELSE /\ futures[r][f].state = "raised"
       /\ Cardinality(Positions(s, QueryError(f))) = 1
       /\ \A i \in 1..Len(s) : IsResult(s[i]) => s[i].directory # f

\* Every sub-query of the request has finished and the collected list holds
\* exactly one contribution per target.
JoinedAll(r) ==
  /\ \A f \in DOMAIN futures[r] : futures[r][f].state # "running"
  /\ \A f \in DOMAIN futures[r] : HoldsContribution(results[r], r, f)
  /\ Len(results[r]) = Contributions(r)

\* C12: join-all. The step that sorts and truncates is taken only when every
\* dispatched sub-query has finished and the collected list holds, for each
\* target, its complete candidate list or exactly one ErrorResult naming
\* it; while a sub-query is still running search does not return, whatever
\* failed before, and a finished sub-query's outcome is never taken back.
C12_JoinAll ==
  [][\A r \in Requests :
       /\ (pc[r] = "collect" /\ pc'[r] = "done") => JoinedAll(r)
       /\ \A f \in DOMAIN futures[r] :
            futures[r][f].state # "running" =>
              (f \in DOMAIN futures'[r] /\ futures'[r][f] = futures[r][f])]_vars

\* A fan-out over two targets, one failed and one that returned candidates,
\* was merged.
C12_Witness ==
  \E r \in Requests :
    /\ Joined(r)
    /\ Cardinality(DOMAIN futures[r]) = 2
    /\ Cardinality(Raised(r)) = 1
    /\ \E f \in DOMAIN futures[r] : futures[r][f].value # <<>>

\* The SearchResults of all documents of all target collections of a request.
AllDocuments(r) ==
  UNION {Range(ResultRecords(f,
           Nearest(chroma[futures[r][f].collection],
                   documents[futures[r][f].collection],
                   futures[r][f].collection,
                   Len(chroma[futures[r][f].collection])))) :
         f \in DOMAIN futures[r]}

\* C13 (amended): asking each target collection for exactly n_results
\* candidates loses nothing. When no query failed, the returned list is the
\* n_results best-scored documents among all documents of all target
\* collections, in descending score order (ties in any order).
C13_GlobalTopN ==
  \A r \in Requests :
    (Joined(r) /\ Raised(r) = {}) =>
      IsTopN(ret[r], AllDocuments(r), n_results[r])

\* The best documents are concentrated in one of two collections, which
\* holds more documents than were asked of it.
C13_Witness ==
  \E r \in Requests :
    /\ Joined(r) /\ Raised(r) = {}
    /\ Cardinality(DOMAIN futures[r]) = 2
    /\ Cardinality(AllDocuments(r)) > Cardinality(Candidates(r))
    /\ Len(ret[r]) = n_results[r]
    /\ \E f \in DOMAIN futures[r] :
         /\ \A i \in 1..Len(ret[r]) : ret[r][i].directory = f
         /\ \A e \in AllDocuments(r) :
              e.directory # f => e.score < ret[r][Len(ret[r])].score

\* All orders of the elements of a set.
Orderings(S) ==
  {o \in [1..Cardinality(S) -> S] :
     \A i \in 1..Cardinality(S) : \A j \in 1..Cardinality(S) :
       i # j => o[i] # o[j]}

\* The candidates collected from folders holding `contents` (folder ->
\* ranked distances), each asked for n, the sub-queries completing in order o.
RECURSIVE CollectedFrom(_, _, _)
CollectedFrom(contents, n, o) ==
  IF o = <<>> THEN <<>>
  ELSE LET f == o[Len(o)]
           docs == [i \in 1..Len(contents[f]) |-> ShortText]
       IN  CollectedFrom(contents, n, SubSeq(o, 1, Len(o) - 1))
             \o ResultRecords(f, Nearest(contents[f], docs,
                                         CollectionName(f), n))

\* C13 (as claimed): under-sampling. For a configuration of two folders
\* there are store contents, an n_results and a completion order for which
\* search over all folders, with no query failing, returns a list that is
\* not the n_results best-scored documents of all documents of the folders.
C13_UnderSampling ==
  LET folders == LoadFolders(config)
  IN  Cardinality(folders) = 2 =>
        \E contents \in [folders -> DistLists] :
          \E n \in 1..MaxN : \E o \in Orderings(folders) :
            LET all == Range(CollectedFrom(contents, MaxDocs, o))
                out == Truncate(SortDesc(CollectedFrom(contents, n, o)), n)
            IN  ~IsTopN(out, all, n)

\* C14: embed once. A request invokes the embedding model at most once: not
\* at all when it was answered 'not indexed', exactly once on every other
\* path past the embedding step; no sub-query exists before that one
\* invocation has succeeded, and every sub-query carries the request's one
\* embedding, that of the request's own query.
C14_EmbedOnce ==
  \A r \in Requests :
    /\ encodes[r] <= 1
    /\ pc[r] \in {"idle", "embed"} => encodes[r] = 0
    /\ pc[r] \in {"dispatch", "collect", "raised"} => encodes[r] = 1
    /\ pc[r] = "done" =>
         encodes[r] = (IF AnsweredNotIndexed(r) THEN 0 ELSE 1)
    /\ DOMAIN futures[r] # {} =>
         (encodes[r] = 1 /\ embedding[r] = <<"vec", query[r]>>)
    /\ \A f \in DOMAIN futures[r] : futures[r][f].embedding = embedding[r]

\* A search of the second query fanned out to two collections and returned.
C14_Witness ==
  \E r \in Requests :
    /\ Joined(r)
    /\ query[r] = "q2"
    /\ Cardinality(DOMAIN futures[r]) = 2
    /\ encodes[r] = 1

\* C15 (as claimed): folder identity is canonical. A directory argument is
\* treated as indexed exactly when it resolves to the canonical path of a
\* configured folder.
C15_CanonicalIdentity ==
  \A r \in Requests :
    (pc[r] # "idle" /\ directory[r] # None) =>
      (~AnsweredNotIndexed(r) <=>
         Resolve(directory[r]) \in {Resolve(p) : p \in config})

\* C16: the registry is read-only during request handling. Once startup is
\* over, no step of search or list_directories changes the registry: its
\* keys and handles stay what startup made them.
C16_RegistryReadOnly ==
  [][started # "no" => _collections' = _collections]_vars

\* After a listing, a fan-out over two folders with a failed sub-query has
\* returned.
C16_Witness ==
  \E r \in Requests :
    /\ Joined(r)
    /\ Raised(r) # {}
    /\ listed # {}
    /\ Cardinality(DOMAIN _collections) = 2
    /\ _collections = [f \in LoadFolders(config) |-> CollectionName(f)]

RECURSIVE SumYielded(_, _)
SumYielded(r, S) ==
  IF S = {} THEN 0
  ELSE LET f == CHOOSE x \in S : TRUE
       IN  Len(Contribution(r, f)) + SumYielded(r, S \ {f})

MissingCollections ==
  {f \in {Resolve(p) : p \in config} : CollectionName(f) \notin DOMAIN chroma}

\* C18: the registry build is all-or-nothing. Startup fails exactly when
\* the collection of some configured folder cannot be fetched, and then the
\* registry has no entry; when startup succeeds the registry has an entry,
\* bound to a collection of the store, for the canonical path of every
\* configured folder and for nothing else.
C18_AllOrNothing ==
  /\ started = "no" => DOMAIN _collections = {}
  /\ started = "failed" =>
       (MissingCollections # {} /\ DOMAIN _collections = {})
  /\ started = "ok" =>
       /\ MissingCollections = {}
       /\ DOMAIN _collections = {Resolve(p) : p \in config}
       /\ \A f \in DOMAIN _collections : _collections[f] \in DOMAIN chroma

\* Startup failed on one folder although the other folder's collection
\* could be fetched.
C18_Witness ==
  /\ started = "failed"
  /\ \E f \in LoadFolders(config) : CollectionName(f) \in DOMAIN chroma

\* C19: termination of the fan-out. Once the directory check has passed and
\* the query is embedded, search eventually returns, given that every
\* sub-query completes; and search never has returned while a sub-query it
\* dispatched is still running.
C19_Termination ==
  /\ (pc["r1"] = "dispatch") ~> (pc["r1"] = "done")
  /\ [](pc["r1"] = "done" =>
          \A f \in DOMAIN futures["r1"] : futures["r1"][f].state # "running")

\* A fan-out over two folders, one sub-query failed, has returned.
C19_Witness ==
  /\ Joined("r1")
  /\ Cardinality(DOMAIN futures["r1"]) = 2
  /\ Raised("r1") # {}
  /\ ret["r1"] # <<>>

====
